---- MODULE Spec2Model ----
(***************************************************************************)
(* A model of UnpacMeClient (src/unpac-me.py): the UnpacMeApi gateway and  *)
(* the commands of __main__ that the verified properties are about.        *)
(*                                                                         *)
(*   Spec        one run of the `upload` or the `status` command           *)
(*   FairSpec    the same, the process and the server always progressing   *)
(*   HistorySpec one enumeration of UnpacMeApi.history()                   *)
(*   ApiSpec     one call of one UnpacMeApi operation on one response      *)
(*   DecodeSpec  UnpacMeStatus.from_string on a list of tokens             *)
(*   HashSpec    construction and comparison of Sha256 objects             *)
(*                                                                         *)
(* An HTTP response is a record: the status code, whether the body decodes *)
(* as JSON, and which keys the decoded object holds.  Python exceptions    *)
(* are named by their class; the enum members of UnpacMeStatus by name.    *)
(***************************************************************************)
EXTENDS Integers, Sequences, FiniteSets, TLC

(***************************************************************************)
(* Bounds of the model.                                                    *)
(***************************************************************************)
\* the longest list of paths the glob patterns expand to
MaxFiles == 2
\* the number of different file contents
NumData == 2
\* the poll counter of a submission saturates here ("MaxPolls or more")
MaxPolls == 2
\* the longest history the server holds, in pages, and the longest page
MaxPages == 2
MaxItems == 2

(***************************************************************************)
(* UnpacMeStatus (lines 25-83).                                            *)
(***************************************************************************)
UnpacMeStatus ==
    {"UNKNOWN", "VALIDATING", "QUEUED", "ANALYZING", "UNPACK_PENDING",
     "UNPACKING", "UNPACKED", "POST_ANALYSIS", "COMPLETE", "FAIL"}

\* from_string falls off the end of its elif chain for any other token: it
\* returns Python's None, never UnpacMeStatus.UNKNOWN.
from_string(status) ==
    CASE status = "validating"     -> "VALIDATING"
      [] status = "queued"         -> "QUEUED"
      [] status = "analyzing"      -> "ANALYZING"
      [] status = "unpack_pending" -> "UNPACK_PENDING"
      [] status = "unpacking"      -> "UNPACKING"
      [] status = "unpacked"       -> "UNPACKED"
      [] status = "post_analysis"  -> "POST_ANALYSIS"
      [] status = "complete"       -> "COMPLETE"
      [] status = "fail"           -> "FAIL"
      [] OTHER                     -> "None"

\* The arity of UnpacMeUpload.__init__ (id, status, created, parent_sha256):
\* a call with any other number of positional arguments is a TypeError.
UnpacMeUpload_init(nargs) == nargs = 4

(***************************************************************************)
(* HTTP responses and the exception classes.                               *)
(***************************************************************************)
Codes == {200, 400, 403, 404, 500}

\* json: the body decodes; error, description: the object holds that key;
\* payload: the object holds the fields the operation reads on success.
Bodies ==
    {b \in [json : BOOLEAN, error : BOOLEAN, description : BOOLEAN,
            payload : BOOLEAN] :
        ~b.json => (~b.error /\ ~b.description /\ ~b.payload)}

Responses == [code : Codes, body : Bodies]

\* the responses a run of a command draws from: a success code, the
\* not-found code and a server error, each with an undecodable body, an
\* empty object, an error object with or without description, or the payload
RunResponses ==
    {r \in Responses :
        /\ r.code \in {200, 404, 500}
        /\ r.body.description => r.body.error
        /\ r.body.payload => ~r.body.error}

\* ApiException and its two subclasses (lines 178-189)
IsApiException(e) ==
    e \in {"ApiException", "UnpacMeApiException", "HashNotFoundApiException"}

\* response.json() followed by the read of the payload fields
Decode(r) ==
    IF ~r.body.json THEN "ValueError"
    ELSE IF ~r.body.payload THEN "KeyError"
    ELSE "return"

(***************************************************************************)
(* UnpacMeApi (lines 192-286): the outcome of each operation on a          *)
(* response, "return" or the class of the exception raised.               *)
(***************************************************************************)
api_upload(r) == IF r.code # 200 THEN "ApiException" ELSE Decode(r)

\* status without the test of the status code
api_status_lenient(r) == Decode(r)

api_status(r) == IF r.code # 200 THEN "ApiException" ELSE Decode(r)

api_results(r) == IF r.code # 200 THEN "ApiException" ELSE Decode(r)

\* download returns response.content undecoded
api_download(r) == IF r.code # 200 THEN "ApiException" ELSE "return"

\* search_hash decodes first, raises on 404 with a description and returns
\* the decoded body for every other response
search_hash(r) ==
    IF ~r.body.json THEN "ValueError"
    ELSE IF r.code = 404 /\ r.body.description
         THEN "HashNotFoundApiException"
         ELSE "return"

\* get_quota decodes first, raises on a non-200 with an error key and builds
\* the UnpacMeQuota from the body of every other response
get_quota(r) ==
    IF ~r.body.json THEN "ValueError"
    ELSE IF r.code # 200 /\ r.body.error THEN "ApiException"
    ELSE IF ~r.body.payload THEN "KeyError"
    ELSE "return"

\* the loop with the test for 404 left out
api_history_no404(r) ==
    IF ~r.body.json THEN "ValueError"
    ELSE IF r.code = 400 /\ r.body.description /\ r.body.error
         THEN "UnpacMeApiException"
    ELSE IF ~r.body.payload THEN "KeyError"
    ELSE "yield"

\* one iteration of the loop of history(), up to the yield: 404 leaves the
\* loop; any other response is decoded; 400 with both error keys raises; the
\* results of every other response are yielded
api_history(r) ==
    IF r.code = 404 THEN "break"
    ELSE IF ~r.body.json THEN "ValueError"
    ELSE IF r.code = 400 /\ r.body.description /\ r.body.error
         THEN "UnpacMeApiException"
    ELSE IF ~r.body.payload THEN "KeyError"
    ELSE "yield"

\* public_feed builds an UnpacMeUpload from two arguments for the first entry
\* of a decoded feed
api_public_feed(r) ==
    IF r.code # 200 THEN "ApiException"
    ELSE IF Decode(r) # "return" THEN Decode(r)
    ELSE IF ~UnpacMeUpload_init(2) THEN "TypeError"
    ELSE "yield"

(***************************************************************************)
(* __main__ (lines 294-503).                                               *)
(***************************************************************************)
\* QUOTA_WARN_PERCENTAGE = .2, as the fraction 1/5
QUOTA_WARN_PERCENTAGE == <<1, 5>>

\* the test written with >= instead of >
PercentageExceeds_ge(n, remaining) ==
    IF remaining > 0
    THEN n * QUOTA_WARN_PERCENTAGE[2] >= QUOTA_WARN_PERCENTAGE[1] * remaining
    ELSE n * QUOTA_WARN_PERCENTAGE[2] <= QUOTA_WARN_PERCENTAGE[1] * remaining

\* percentage = float(len(tasks)) / float(remaining): the division raises for
\* remaining = 0 (callers test that first); percentage > .2 on the floats
\* agrees with the exact comparison of the fractions for the small integers of
\* a run (5n = r divides to the double that the literal .2 denotes).
PercentageExceeds(n, remaining) ==
    IF remaining > 0
    THEN n * QUOTA_WARN_PERCENTAGE[2] > QUOTA_WARN_PERCENTAGE[1] * remaining
    ELSE n * QUOTA_WARN_PERCENTAGE[2] < QUOTA_WARN_PERCENTAGE[1] * remaining

\* the statuses at which the process "has completed" (lines 56-62)
Terminal == {"COMPLETE", "FAIL"}

\* the exit test of the polling loop: status == UnpacMeStatus.COMPLETE
\* the exit test inverted
PollingDone_inverted(s) == s # "COMPLETE"

PollingDone(s) == s = "COMPLETE"

\* the files the patterns expand to: 0 is a path that is not a regular file
\* (a directory), d > 0 a file holding content d
FileLists == UNION {[1..n -> 0..NumData] : n \in 0..MaxFiles}

\* what the server may assign to month_limit and month_submissions
MonthLimit == 5 * MaxFiles + 1
MonthSubmissions == 0..(MonthLimit + 1)

\* status tokens the server may answer a status request with
StatusTokens == {"queued", "unpacking", "complete", "fail", "bogus"}

Submissions == 1..MaxFiles

VARIABLES
    args,      \* the parsed command line
    files,     \* the paths glob yields, in order
    pc,        \* the position of the process
    exc,       \* the class of the exception that ended the run, "" if none
    i,         \* the index of the next path of the file loop
    tasks,     \* the list `tasks`
    hash_already_uploaded,
    quota,     \* <<>> or <<month_submissions, month_limit>> of the snapshot
    t,         \* the index of the current element of `for file_data in tasks`
    upload,    \* 0, or the index of the task the UnpacMeUpload object is of
    status,    \* the variable `status` of the polling loop
    response,  \* the last response the session received, with its operation
    submits,   \* per task: the upload requests issued
    polls,     \* the status requests issued for `upload` (saturating)
    fetches,   \* per task: the results requests issued
    termAt,    \* `polls` when a status request for `upload` first returned
               \* COMPLETE or FAIL, 0 before
    nsearch,   \* the search requests issued
    nquota,    \* the quota requests issued
    percentage,\* <<>> or `percentage` as <<len(tasks), remaining>>
    \* UnpacMeApi.history() and the server it enumerates
    pages,     \* the history the server holds: the number of items per page
    lastCursor,\* the cursor field of the last page
    hpc,       \* the position of the generator
    hexc,      \* the class of the exception the generator raised, "" if none
    cursor,    \* the local variable `cursor`
    yielded,   \* the items the generator has yielded, in order
    hreqs,     \* the cursor parameter of every page request, in order
    hresp,     \* the last response, with the items yielded from it
    clean,     \* every response so far was the page asked for, with code 200
    \* one call of one operation
    call,      \* the operation, the response and the outcome
    \* the decoding of a list of status tokens
    tokens,    \* the `status` fields of the entries of a decoded body
    decoded,   \* what from_string returned for them so far, in order
    \* the Sha256 objects of a process
    hashes,    \* the objects constructed so far, in order
    hashIn,    \* the argument of the last call of the constructor
    hashExc,   \* the class of the exception that call raised, "" if none
    hashEq     \* <<>> or <<a, b, hashes[a] == hashes[b]>> of the last ==

runVars == <<args, files, pc, exc, i, tasks, hash_already_uploaded, quota, t,
             upload, status, response, submits, polls, fetches, termAt,
             nsearch, nquota, percentage>>

historyVars ==
    <<pages, lastCursor, hpc, hexc, cursor, yielded, hreqs, hresp, clean>>

decodeVars == <<tokens, decoded>>

hashVars == <<hashes, hashIn, hashExc, hashEq>>

vars == <<runVars, historyVars, call, decodeVars, hashVars>>

NoResponse == [op |-> "none", code |-> 0,
               body |-> [json |-> FALSE, error |-> FALSE,
                         description |-> FALSE, payload |-> FALSE]]

Received(op, r) == [op |-> op, code |-> r.code, body |-> r.body]

\* args.force and args.print_id by their truth value; poll_interval is the
\* int default or a str given on the command line; results is
\* args.details or args.download_unpacked_files or args.list
Args ==
    [command : {"upload"}, force : BOOLEAN, print_id : BOOLEAN,
     poll_interval : {"default", "given"}, results : {FALSE}]
    \cup
    [command : {"status"}, force : {FALSE}, print_id : {FALSE},
     poll_interval : {"default"}, results : BOOLEAN]

\* no page request has been made
NoPage == [code |-> 0, body |-> NoResponse.body, got |-> 0]

\* no enumeration of the history is under way
HistoryIdle ==
    /\ pages = <<>>
    /\ lastCursor = 0
    /\ hpc = "idle"
    /\ hexc = ""
    /\ cursor = 0
    /\ yielded = <<>>
    /\ hreqs = <<>>
    /\ hresp = NoPage
    /\ clean = TRUE

NoCall == [op |-> "none", r |-> [code |-> 0, body |-> NoResponse.body],
           outcome |-> "none"]

\* the upload command with the quota check placed before the file loop
Main_quotaFirst(a, f) ==
    /\ args = a
    /\ files = f
    /\ pc = IF a.command # "upload" THEN a.command ELSE "quota"
    /\ exc = ""
    /\ i = 1
    /\ tasks = <<>>
    /\ hash_already_uploaded = FALSE
    /\ quota = <<>>
    /\ t = 0
    /\ upload = 0
    /\ status = "unset"
    /\ response = NoResponse
    /\ submits = [u \in Submissions |-> 0]
    /\ polls = 0
    /\ fetches = [u \in Submissions |-> 0]
    /\ termAt = 0
    /\ nsearch = 0
    /\ nquota = 0
    /\ percentage = <<>>

\* the state of __main__ at the dispatch on args.command
Main(a, f) ==
    /\ args = a
    /\ files = f
    /\ pc = IF a.command # "upload" THEN a.command
            ELSE IF f = <<>> THEN "quota" ELSE "scan"
    /\ exc = ""
    /\ i = 1
    /\ tasks = <<>>
    /\ hash_already_uploaded = FALSE
    /\ quota = <<>>
    /\ t = 0
    /\ upload = 0
    /\ status = "unset"
    /\ response = NoResponse
    /\ submits = [u \in Submissions |-> 0]
    /\ polls = 0
    /\ fetches = [u \in Submissions |-> 0]
    /\ termAt = 0
    /\ nsearch = 0
    /\ nquota = 0
    /\ percentage = <<>>

\* no list of tokens is being decoded
DecodeIdle == tokens = <<>> /\ decoded = <<>>

\* no Sha256 object has been constructed
HashIdle ==
    /\ hashes = <<>>
    /\ hashIn = <<>>
    /\ hashExc = ""
    /\ hashEq = <<>>

Init ==
    /\ \E a \in Args :
          \E f \in IF a.command = "upload" THEN FileLists ELSE {<<>>} :
             Main(a, f)
    /\ HistoryIdle
    /\ call = NoCall
    /\ DecodeIdle
    /\ HashIdle

\* an exception leaves the command: `except ApiException` (lines 502-503)
\* logs it, any other class ends the process with a traceback
Raise(e) ==
    /\ pc' = IF IsApiException(e) THEN "caught" ELSE "crashed"
    /\ exc' = e

\* lines 399, 403, 411: the next element of `for file_data in tasks`
NextTask(k) ==
    /\ pc' = IF k > Len(tasks) THEN "done" ELSE "upload"
    /\ t' = k

\* lines 366-386: one iteration of the file loop
ScanFile ==
    /\ pc = "scan"
    /\ UNCHANGED <<historyVars, call, decodeVars, hashVars>>
    /\ UNCHANGED <<args, files, quota, t, upload, status, submits, polls,
                   fetches, termAt, nquota, percentage>>
    /\ IF files[i] = 0
       THEN \* lines 371-373: not a file
            /\ i' = i + 1
            /\ pc' = IF i + 1 > Len(files) THEN "quota" ELSE "scan"
            /\ UNCHANGED <<exc, tasks, hash_already_uploaded, response,
                           nsearch>>
       ELSE \E r \in RunResponses :
            /\ response' = Received("search_hash", r)
            /\ nsearch' = nsearch + 1
            /\ CASE search_hash(r) = "return" ->
                      \* lines 379-380, 383-384
                      /\ hash_already_uploaded' = TRUE
                      /\ i' = i + 1
                      /\ pc' = IF i + 1 > Len(files) THEN "quota" ELSE "scan"
                      /\ UNCHANGED <<exc, tasks>>
                 [] search_hash(r) = "HashNotFoundApiException" ->
                      \* lines 381-382, 386
                      /\ hash_already_uploaded' = FALSE
                      /\ tasks' = Append(tasks, files[i])
                      /\ i' = i + 1
                      /\ pc' = IF i + 1 > Len(files) THEN "quota" ELSE "scan"
                      /\ UNCHANGED exc
                 [] OTHER ->
                      /\ Raise(search_hash(r))
                      /\ UNCHANGED <<i, tasks, hash_already_uploaded>>

\* lines 388-397: the quota check
QuotaCheck ==
    /\ pc = "quota"
    /\ UNCHANGED <<historyVars, call, decodeVars, hashVars>>
    /\ UNCHANGED <<args, files, i, tasks, hash_already_uploaded, upload,
                   status, submits, polls, fetches, termAt, nsearch>>
    /\ IF args.force
       THEN /\ NextTask(1)
            /\ UNCHANGED <<exc, quota, response, nquota, percentage>>
       ELSE \E r \in RunResponses, used \in MonthSubmissions :
            /\ response' = Received("get_quota", r)
            /\ nquota' = nquota + 1
            /\ IF get_quota(r) # "return"
               THEN /\ Raise(get_quota(r))
                    /\ UNCHANGED <<quota, t, percentage>>
               ELSE /\ quota' = <<used, MonthLimit>>
                    /\ LET remaining == MonthLimit - used IN
                       IF remaining = 0
                       THEN /\ Raise("ZeroDivisionError")
                            /\ UNCHANGED <<t, percentage>>
                       ELSE /\ percentage' = <<Len(tasks), remaining>>
                            /\ IF PercentageExceeds(Len(tasks), remaining)
                               THEN \* exit()
                                    pc' = "exited" /\ UNCHANGED <<exc, t>>
                               ELSE NextTask(1) /\ UNCHANGED exc

\* the upload step without the test of args.print_id
Upload_ignorePrintId ==
    /\ pc = "upload"
    /\ UNCHANGED <<historyVars, call, decodeVars, hashVars>>
    /\ UNCHANGED <<nsearch, nquota, percentage>>
    /\ UNCHANGED <<args, files, i, tasks, hash_already_uploaded, quota,
                   status, fetches>>
    /\ submits' = [submits EXCEPT ![t] = @ + 1]
    /\ \E r \in RunResponses :
       /\ response' = Received("upload", r)
       /\ IF api_upload(r) # "return"
          THEN Raise(api_upload(r)) /\ UNCHANGED <<t, upload, polls, termAt>>
          ELSE /\ upload' = t
               /\ polls' = 0
               /\ termAt' = 0
               /\ pc' = "poll" /\ UNCHANGED <<exc, t>>

\* lines 400-403: api.upload(file_data)
Upload ==
    /\ pc = "upload"
    /\ UNCHANGED <<historyVars, call, decodeVars, hashVars>>
    /\ UNCHANGED <<nsearch, nquota, percentage>>
    /\ UNCHANGED <<args, files, i, tasks, hash_already_uploaded, quota,
                   status, fetches>>
    /\ submits' = [submits EXCEPT ![t] = @ + 1]
    /\ \E r \in RunResponses :
       /\ response' = Received("upload", r)
       /\ IF api_upload(r) # "return"
          THEN Raise(api_upload(r)) /\ UNCHANGED <<t, upload, polls, termAt>>
          ELSE /\ upload' = t
               /\ polls' = 0
               /\ termAt' = 0
               /\ IF args.print_id
                  THEN NextTask(t + 1) /\ UNCHANGED exc
                  ELSE pc' = "poll" /\ UNCHANGED <<exc, t>>

\* lines 406-409: api.status(upload) and the exit test of the loop
PollStatus ==
    /\ pc = "poll"
    /\ UNCHANGED <<historyVars, call, decodeVars, hashVars>>
    /\ UNCHANGED <<nsearch, nquota, percentage>>
    /\ UNCHANGED <<args, files, i, tasks, hash_already_uploaded, quota, t,
                   upload, submits, fetches>>
    /\ polls' = IF polls < MaxPolls THEN polls + 1 ELSE polls
    /\ \E r \in RunResponses, token \in StatusTokens :
       /\ response' = Received("status", r)
       /\ IF api_status(r) # "return"
          THEN Raise(api_status(r)) /\ UNCHANGED <<status, termAt>>
          ELSE /\ status' = from_string(token)
               /\ termAt' = IF status' \in Terminal /\ termAt = 0
                            THEN polls'
                            ELSE termAt
               /\ pc' = IF PollingDone(status') THEN "results" ELSE "sleep"
               /\ UNCHANGED exc

\* the sleep followed by a new upload of the same file instead of a new poll
Sleep_resubmit ==
    /\ pc = "sleep"
    /\ UNCHANGED <<historyVars, call, decodeVars, hashVars>>
    /\ UNCHANGED <<nsearch, nquota, percentage>>
    /\ UNCHANGED <<args, files, i, tasks, hash_already_uploaded, quota, t,
                   upload, status, response, submits, polls, fetches, termAt>>
    /\ IF args.poll_interval = "given"
       THEN Raise("TypeError")
       ELSE pc' = "upload" /\ UNCHANGED exc

\* line 410: time.sleep(args.poll_interval); --poll-interval has no type=, so
\* a value given on the command line is a str, which time.sleep rejects
Sleep ==
    /\ pc = "sleep"
    /\ UNCHANGED <<historyVars, call, decodeVars, hashVars>>
    /\ UNCHANGED <<nsearch, nquota, percentage>>
    /\ UNCHANGED <<args, files, i, tasks, hash_already_uploaded, quota, t,
                   upload, status, response, submits, polls, fetches, termAt>>
    /\ IF args.poll_interval = "given"
       THEN Raise("TypeError")
       ELSE pc' = "poll" /\ UNCHANGED exc

\* line 411: api.results(upload)
FetchResults ==
    /\ pc = "results"
    /\ UNCHANGED <<historyVars, call, decodeVars, hashVars>>
    /\ UNCHANGED <<nsearch, nquota, percentage>>
    /\ UNCHANGED <<args, files, i, tasks, hash_already_uploaded, quota,
                   upload, status, submits, polls, termAt>>
    /\ fetches' = [fetches EXCEPT ![upload] = @ + 1]
    /\ \E r \in RunResponses :
       /\ response' = Received("results", r)
       /\ IF api_results(r) # "return"
          THEN Raise(api_results(r)) /\ UNCHANGED t
          ELSE NextTask(t + 1) /\ UNCHANGED exc

\* lines 422-453: the status command.  The UnpacMeUpload of line 423 is built
\* from three arguments; past it, one status request, and one results request
\* when the status is COMPLETE and an option asks for the results.
StatusCommand ==
    /\ pc = "status"
    /\ UNCHANGED <<historyVars, call, decodeVars, hashVars>>
    /\ UNCHANGED <<nsearch, nquota, percentage>>
    /\ UNCHANGED <<args, files, i, tasks, hash_already_uploaded, quota, t,
                   submits>>
    /\ IF ~UnpacMeUpload_init(3)
       THEN /\ Raise("TypeError")
            /\ UNCHANGED <<upload, status, response, polls, fetches, termAt>>
       ELSE \E r \in RunResponses, token \in StatusTokens :
            /\ upload' = 1
            /\ polls' = 1
            /\ IF api_status(r) # "return"
               THEN /\ Raise(api_status(r))
                    /\ response' = Received("status", r)
                    /\ UNCHANGED <<status, fetches, termAt>>
               ELSE /\ status' = from_string(token)
                    /\ termAt' = IF status' \in Terminal THEN 1 ELSE 0
                    /\ IF status' = "COMPLETE" /\ args.results
                       THEN \E q \in RunResponses :
                            /\ fetches' = [fetches EXCEPT ![1] = @ + 1]
                            /\ response' = Received("results", q)
                            /\ IF api_results(q) # "return"
                               THEN Raise(api_results(q))
                               ELSE pc' = "done" /\ UNCHANGED exc
                       ELSE /\ pc' = "done"
                            /\ response' = Received("status", r)
                            /\ UNCHANGED <<exc, fetches>>

Next ==
    \/ StatusCommand
    \/ ScanFile
    \/ QuotaCheck
    \/ Upload
    \/ PollStatus
    \/ Sleep
    \/ FetchResults

Spec == Init /\ [][Next]_vars

\* The process is sequential and never waits for anything but a response,
\* which the session's timeout bounds (FixedTimeoutAdapter, lines 18-22):
\* whatever step is enabled is eventually taken.
FairSpec == Spec /\ WF_vars(Next)

(***************************************************************************)
(* Properties of the upload and status commands.                           *)
(***************************************************************************)
Remaining == quota[2] - quota[1]

Polling(u) == upload = u /\ pc \in {"poll", "sleep"}

\* C1: once a status request for a submission has returned Complete or Fail,
\* no further status request is issued for that submission.  The polling loop
\* leaves on COMPLETE only, so it polls again after FAIL.
C1_NoPollAfterTerminal == termAt > 0 => polls = termAt

\* C2: if from some point on every status request for a submission succeeds
\* and returns Complete or Fail, the polling loop of that submission
\* eventually stops.  It never stops while the server reports FAIL.
C2_PollingStops ==
    \A u \in Submissions :
        <>[](upload = u /\ termAt > 0 /\ status \in Terminal)
            => <>[](~Polling(u))

\* the three answers of the search a claim tells apart: the not-found
\* condition, a successful match, anything else
C3_NotFound(r) == r.code = 404 /\ r.body.json /\ r.body.description
C3_Match(r) == r.code = 200 /\ r.body.json
C3_Kept ==
    /\ pc \notin {"caught", "crashed"}
    /\ ~hash_already_uploaded
    /\ tasks # <<>>
    /\ tasks[Len(tasks)] = files[i - 1]
C3_Skipped == pc \notin {"caught", "crashed"} /\ hash_already_uploaded

\* C3: per candidate file, a not-found answer keeps it for submission, a
\* successful match skips it, and any other answer (another non-2xx, an
\* undecodable body) propagates as a failure: the file is neither skipped as a
\* duplicate nor kept.  The code skips the file on every decodable answer that
\* is not a 404 with a description.
C3_DedupOutcome ==
    response.op = "search_hash" =>
        /\ C3_NotFound(response) => C3_Kept
        /\ C3_Match(response) => C3_Skipped
        /\ (~C3_NotFound(response) /\ ~C3_Match(response))
              => pc \in {"caught", "crashed"}

\* C4: without force, a snapshot with month_limit - month_submissions <= 0
\* lets no upload request be issued, whatever the size of the batch.
\* A negative remainder makes the percentage negative, which passes the test.
C4_ExhaustedQuotaDenies ==
    (~args.force /\ quota # <<>> /\ Remaining <= 0)
        => \A u \in Submissions : submits[u] = 0

\* C5: without force and with a positive remainder, the run stops before any
\* upload request exactly when 5 * len(tasks) > remaining; otherwise it enters
\* the upload loop, and a run that ends normally has issued one upload request
\* for every task.
C5_WarnOrAllow ==
    (~args.force /\ quota # <<>> /\ Remaining > 0) =>
        IF 5 * Len(tasks) > Remaining
        THEN pc = "exited" /\ \A u \in Submissions : submits[u] = 0
        ELSE /\ pc # "exited"
             /\ tasks # <<>> => t >= 1
             /\ pc = "done" => \A k \in 1..Len(tasks) : submits[k] = 1

\* C5 witness: the boundary batch (one task, five remaining) was allowed and
\* submitted
C5_Witness ==
    /\ ~args.force /\ quota # <<>> /\ Remaining = 5
    /\ Len(tasks) = 1 /\ pc = "done" /\ submits[1] = 1

\* C5 witness of the other side: a batch above the threshold stopped the run
C5_WitnessWarn ==
    /\ ~args.force /\ quota # <<>> /\ Remaining = 4
    /\ Len(tasks) = 1 /\ pc = "exited"

\* C9: a results request for a submission is issued only after a status
\* request for that submission returned Complete or Fail, never while the last
\* status observed is non-terminal, unrecognized or none at all.
C9_FetchAfterTerminal ==
    response.op = "results" =>
        /\ fetches[upload] >= 1
        /\ polls >= 1
        /\ termAt >= 1
        /\ status \in Terminal

\* C9 witness: the results of a polled submission were fetched
C9_Witness ==
    /\ response.op = "results" /\ fetches[upload] = 1
    /\ status = "COMPLETE" /\ polls = MaxPolls

\* the run was ended by an exception
Ended == pc \in {"caught", "crashed"}

\* C11: when the upload, a status request or the results request of one task
\* fails with an ApiException, every other task of the batch is still
\* submitted.  The exception leaves the loop over the tasks, so the tasks
\* after the failed one are never submitted.
C11_FailureIsolated ==
    (pc = "caught" /\ response.op \in {"upload", "status", "results"})
        => \A k \in 1..Len(tasks) : submits[k] >= 1

\* C12: a submission whose job never reaches Complete or Fail does not keep
\* any other task of the batch from being submitted: every task of a started
\* batch is eventually submitted, unless an exception ends the run or the job
\* being polled reaches a terminal status.  The loop polls one submission at a
\* time and starts the next upload only after COMPLETE.
C12_IndependentPolling ==
    \A k \in Submissions :
        (t >= 1 /\ k <= Len(tasks))
            ~> (submits[k] >= 1 \/ Ended \/ termAt > 0)

\* the paths of `files` that are regular files
RegularFiles == {k \in DOMAIN files : files[k] # 0}

\* C14: with the force option, a file whose hash the service already knows is
\* still submitted: a run that ends normally has submitted every file.  The
\* search and the `continue` of lines 377-384 do not look at args.force.
C14_ForceSubmitsKnown ==
    (args.force /\ pc = "done")
        => /\ Len(tasks) = Cardinality(RegularFiles)
           /\ \A k \in 1..Len(tasks) : submits[k] = 1

\* C16: with the print-id option no status request and no results request is
\* issued for any submission; every task is submitted and the loop goes on to
\* the next.
C16_PrintIdOnly ==
    args.print_id =>
        /\ polls = 0
        /\ \A u \in Submissions : fetches[u] = 0
        /\ response.op \notin {"status", "results"}
        /\ pc \notin {"poll", "sleep", "results"}
        /\ pc = "done" =>
              /\ \A k \in 1..Len(tasks) : submits[k] = 1
              /\ upload = Len(tasks)

\* C16 witness: a full batch was submitted with print-id
C16_Witness ==
    /\ args.print_id /\ pc = "done" /\ Len(tasks) = MaxFiles
    /\ \A k \in 1..Len(tasks) : submits[k] = 1

C18_NoResubmission ==
    \A u \in Submissions :
        /\ submits[u] <= 1
        /\ submits[u] = 1 => u <= Len(tasks)

\* C18 witness: a submission polled again and again, submitted once
C18_Witness ==
    /\ upload >= 1 /\ submits[upload] = 1 /\ polls = MaxPolls
    /\ pc = "poll" /\ status \notin Terminal

\* C19: a status request answered with a non-2xx response raises
\* ApiException out of the command: the loop does not go on to sleep and poll
\* again, and no results request is issued for that submission.
C19_PollFailureRaised ==
    (response.op = "status" /\ response.code \notin 200..299) =>
        /\ pc = "caught"
        /\ exc = "ApiException"
        /\ upload >= 1
        /\ fetches[upload] = 0

\* C19 witness: the second status request of a submission failed
C19_Witness ==
    /\ response.op = "status" /\ response.code = 500
    /\ pc = "caught" /\ polls = 2

\* C20: after a status request that returned a non-terminal status (in any
\* order, repeated, or an unrecognized token) the polling loop raises no error
\* and goes on to observe again.  time.sleep raises TypeError when the poll
\* interval was given on the command line.
C20_RegressionTolerated ==
    (response.op = "status" /\ response.code = 200 /\ response.body.payload
        /\ status \notin Terminal)
        => /\ pc \in {"poll", "sleep"}
           /\ exc = ""

\* C21: in one upload run, at most one upload request is issued for one
\* file content: two tasks with identical bytes are not both submitted.  The
\* file loop searches the server for each file on its own and never compares
\* a file with the tasks already kept.
C21_InRunDedup ==
    \A j \in 1..Len(tasks), k \in 1..Len(tasks) :
        (j # k /\ tasks[j] = tasks[k]) => submits[j] + submits[k] <= 1

(***************************************************************************)
(* UnpacMeApi.history() (lines 233-250), drained by its consumer, against  *)
(* a server that holds `pages`.  Page p holds pages[p] items, <<p, 1>> to  *)
(* <<p, pages[p]>>.  A cursor is 0 (None, JSON null), -1 (the key is       *)
(* absent) or the number of the page it names; no cursor names page 1.     *)
(***************************************************************************)
MaxRequests == MaxPages + 2

Histories == UNION {[1..n -> 0..MaxItems] : n \in 0..MaxPages}

\* the page a request with cursor c asks for: requests drops a None parameter
PageOf(c) == IF c = 0 THEN 1 ELSE c

PageItems(p) == [j \in 1..pages[p] |-> <<p, j>>]

\* the cursor field of page p
PageCursor(p) == IF p < Len(pages) THEN p + 1 ELSE lastCursor

\* what the server may answer: any response, with the page asked for as its
\* payload only when it holds that page
Served(c) ==
    IF PageOf(c) \in 1..Len(pages)
    THEN Responses
    ELSE {r \in Responses : ~r.body.payload}

RECURSIVE Concat(_)
Concat(p) == IF p = 0 THEN <<>> ELSE Concat(p - 1) \o PageItems(p)

HistoryInit ==
    /\ Main([command |-> "none", force |-> FALSE, print_id |-> FALSE,
             poll_interval |-> "default", results |-> FALSE], <<>>)
    /\ call = NoCall
    /\ DecodeIdle
    /\ HashIdle
    /\ pages \in Histories
    /\ lastCursor \in {-1, 0, Len(pages) + 1}
    /\ hpc = "request"
    /\ hexc = ""
    /\ cursor = 0
    /\ yielded = <<>>
    /\ hreqs = <<>>
    /\ hresp = NoPage
    /\ clean = TRUE

\* lines 235-250: one iteration of `while True`
HistoryFetch ==
    /\ hpc = "request"
    /\ Len(hreqs) < MaxRequests
    /\ UNCHANGED <<runVars, call, decodeVars, hashVars, pages, lastCursor>>
    /\ hreqs' = Append(hreqs, cursor)
    /\ \E r \in Served(cursor) :
       LET p == PageOf(cursor) IN
       /\ clean' = (clean /\ r.code = 200 /\ r.body.payload)
       /\ CASE api_history(r) = "break" ->
                 /\ hpc' = "finished"
                 /\ hresp' = [code |-> r.code, body |-> r.body, got |-> 0]
                 /\ UNCHANGED <<hexc, cursor, yielded>>
            [] api_history(r) = "yield" ->
                 /\ yielded' = yielded \o PageItems(p)
                 /\ hresp' = [code |-> r.code, body |-> r.body,
                              got |-> pages[p]]
                 /\ IF PageCursor(p) = -1
                    THEN \* line 250: j['cursor']
                         /\ hpc' = "raised"
                         /\ hexc' = "KeyError"
                         /\ UNCHANGED cursor
                    ELSE /\ cursor' = PageCursor(p)
                         /\ UNCHANGED <<hpc, hexc>>
            [] OTHER ->
                 /\ hpc' = "raised"
                 /\ hexc' = api_history(r)
                 /\ hresp' = [code |-> r.code, body |-> r.body, got |-> 0]
                 /\ UNCHANGED <<cursor, yielded>>

HistoryNext == HistoryFetch

HistorySpec == HistoryInit /\ [][HistoryNext]_vars

\* C6: against a server that serves its finite history page by page, every
\* page but the last with the cursor of the next and the last with no cursor
\* (absent or null), the iterator yields the items of all pages in order, each
\* once, asks for each page with the cursor of the page before, and ends
\* without error and without a further request.  The code reads j['cursor']
\* of every page: an absent key raises KeyError, a null starts over.
C6_FiniteHistory ==
    (clean /\ lastCursor \in {-1, 0} /\ Len(pages) >= 1
           /\ Len(hreqs) >= Len(pages))
        => /\ hpc = "finished"
           /\ hexc = ""
           /\ yielded = Concat(Len(pages))
           /\ hreqs = [k \in 1..Len(pages) |-> IF k = 1 THEN 0 ELSE k]

\* C7: a page request answered with 404 ends the iteration cleanly: no
\* exception, nothing yielded from that response, the generator exhausted; a
\* 404 on the first request yields no item at all.
C7_EndOfHistory ==
    hresp.code = 404 =>
        /\ hpc = "finished"
        /\ hexc = ""
        /\ hresp.got = 0
        /\ Len(hreqs) = 1 => yielded = <<>>

\* C7 witness: the first request was answered with 404
C7_Witness ==
    /\ hresp.code = 404 /\ Len(hreqs) = 1
    /\ hpc = "finished" /\ yielded = <<>>

\* C7 witness: 404 after the last page of a history
C7_WitnessAfterPages ==
    /\ hresp.code = 404 /\ Len(hreqs) = Len(pages) + 1 /\ hpc = "finished"
    /\ Len(pages) = MaxPages /\ yielded = Concat(Len(pages)) /\ yielded # <<>>

\* C8: a page request answered with a 4xx other than 404 whose body is an
\* object with error and description raises UnpacMeApiException, yields
\* nothing from that response and ends the iteration.  The code tests for
\* status 400 only.
C8_DomainError ==
    (hresp.code \in (400..499) \ {404} /\ hresp.body.json
        /\ hresp.body.error /\ hresp.body.description)
        => /\ hpc = "raised"
           /\ hexc = "UnpacMeApiException"
           /\ hresp.got = 0

(***************************************************************************)
(* One call of one operation of UnpacMeApi on one response.  For the two  *)
(* generators the outcome is that of the first step of their consumer.    *)
(***************************************************************************)
Operations ==
    {"upload", "status", "results", "download", "history", "search_hash",
     "get_quota", "public_feed"}

Outcome(op, r) ==
    CASE op = "upload"      -> api_upload(r)
      [] op = "status"      -> api_status(r)
      [] op = "results"     -> api_results(r)
      [] op = "download"    -> api_download(r)
      [] op = "history"     -> api_history(r)
      [] op = "search_hash" -> search_hash(r)
      [] op = "get_quota"   -> get_quota(r)
      [] op = "public_feed" -> api_public_feed(r)

ApiInit ==
    /\ Main([command |-> "none", force |-> FALSE, print_id |-> FALSE,
             poll_interval |-> "default", results |-> FALSE], <<>>)
    /\ HistoryIdle
    /\ DecodeIdle
    /\ HashIdle
    /\ call \in [op : Operations, r : Responses, outcome : {"pending"}]

ApiCall ==
    /\ call.outcome = "pending"
    /\ call' = [call EXCEPT !.outcome = Outcome(call.op, call.r)]
    /\ UNCHANGED <<runVars, historyVars, decodeVars, hashVars>>

ApiNext == ApiCall

ApiSpec == ApiInit /\ [][ApiNext]_vars

\* the body of a recognized domain error
C10_Recognized(r) ==
    r.code \in 400..499 /\ r.body.json /\ r.body.error /\ r.body.description

\* C10: no operation returns a success value built from a non-2xx response;
\* the outcome is a typed domain error (or the not-found / end-of-history
\* condition) when the body has the recognized shape and a failure otherwise.
\* search_hash, get_quota and history return or yield what they decode from
\* non-2xx responses.
C10_Classification ==
    (call.outcome # "pending" /\ call.op # "none"
        /\ call.r.code \notin 200..299)
        => /\ call.outcome \notin {"return", "yield"}
           /\ C10_Recognized(call.r) =>
                 call.outcome \in {"UnpacMeApiException",
                                   "HashNotFoundApiException", "break"}
           /\ ~C10_Recognized(call.r) =>
                 call.outcome \in {"ApiException", "ValueError", "KeyError",
                                   "break"}

(***************************************************************************)
(* UnpacMeStatus.from_string applied to the status tokens of a decoded     *)
(* body, one after the other (lines 150, 219, 246, 281).                   *)
(***************************************************************************)
MaxTokens == 2

\* the nine tokens of the service and three others
Tokens ==
    {"validating", "queued", "analyzing", "unpack_pending", "unpacking",
     "unpacked", "post_analysis", "complete", "fail",
     "bogus", "COMPLETE", ""}

DecodeInit ==
    /\ Main([command |-> "none", force |-> FALSE, print_id |-> FALSE,
             poll_interval |-> "default", results |-> FALSE], <<>>)
    /\ HistoryIdle
    /\ call = NoCall
    /\ HashIdle
    /\ tokens \in UNION {[1..n -> Tokens] : n \in 0..MaxTokens}
    /\ decoded = <<>>

DecodeToken ==
    /\ Len(decoded) < Len(tokens)
    /\ decoded' = Append(decoded, from_string(tokens[Len(decoded) + 1]))
    /\ UNCHANGED <<runVars, historyVars, call, hashVars, tokens>>

DecodeNext == DecodeToken

DecodeSpec == DecodeInit /\ [][DecodeNext]_vars

\* the member each of the nine tokens stands for
C13_Member ==
    [validating |-> "VALIDATING", queued |-> "QUEUED",
     analyzing |-> "ANALYZING", unpack_pending |-> "UNPACK_PENDING",
     unpacking |-> "UNPACKING", unpacked |-> "UNPACKED",
     post_analysis |-> "POST_ANALYSIS", complete |-> "COMPLETE",
     fail |-> "FAIL"]

\* C13: from_string maps each of the nine tokens to its own member of
\* UnpacMeStatus and every other token to UNKNOWN, and returns nothing that is
\* not a member.  The code returns None for every other token.
C13_TotalDecoding ==
    \A k \in 1..Len(decoded) :
        /\ decoded[k] \in UnpacMeStatus
        /\ decoded[k] = IF tokens[k] \in DOMAIN C13_Member
                        THEN C13_Member[tokens[k]]
                        ELSE "UNKNOWN"

(***************************************************************************)
(* Sha256 (lines 86-100): construction from a string, construction from    *)
(* file data, and comparison.  A string is its length and, among strings   *)
(* of one length, its identity.                                            *)
(***************************************************************************)
\* the most Sha256 objects alive at once
MaxHashes == 3

\* line 88: the length of a SHA-256 hex digest
SHA256_LEN == 64

\* the strings given to Sha256(...): empty, one short, exact, one long
HashLengths == {0, SHA256_LEN - 1, SHA256_LEN, SHA256_LEN + 1}

Strings == [len : HashLengths, id : 1..NumData]

\* hashlib.sha256(data).hexdigest(): 64 hex characters, fixed by the data
hexdigest(data) == [len |-> SHA256_LEN, id |-> data]

\* the length test accepting every string that is not too long
Sha256_valid_atMost(sha256) == sha256.len <= SHA256_LEN

\* line 88: the negation of `len(sha256) != 64`
Sha256_valid(sha256) == sha256.len = SHA256_LEN

\* lines 99-100: __eq__
Sha256_eq(self, other) == self.hash = other.hash

\* lines 87-90: __init__; hashIn records the argument and the number of
\* objects before the call
Sha256_init(sha256) ==
    /\ hashIn' = <<sha256, Len(hashes)>>
    /\ IF ~Sha256_valid(sha256)
       THEN /\ hashExc' = "Exception"
            /\ UNCHANGED hashes
       ELSE /\ hashExc' = ""
            /\ hashes' = Append(hashes, [hash |-> sha256])

HashInit ==
    /\ Main([command |-> "none", force |-> FALSE, print_id |-> FALSE,
             poll_interval |-> "default", results |-> FALSE], <<>>)
    /\ HistoryIdle
    /\ call = NoCall
    /\ DecodeIdle
    /\ HashIdle

\* Sha256(s), as at lines 141, 149, 248, 282, 464, 475
Construct ==
    /\ Len(hashes) < MaxHashes
    /\ \E s \in Strings : Sha256_init(s)
    /\ UNCHANGED <<runVars, historyVars, call, decodeVars, hashEq>>

\* lines 92-94: Sha256.from_data(data)
FromData ==
    /\ Len(hashes) < MaxHashes
    /\ \E d \in 1..NumData : Sha256_init(hexdigest(d))
    /\ UNCHANGED <<runVars, historyVars, call, decodeVars, hashEq>>

\* a == b on two Sha256 objects
Compare ==
    /\ \E a \in DOMAIN hashes, b \in DOMAIN hashes :
          hashEq' = <<a, b, Sha256_eq(hashes[a], hashes[b])>>
    /\ UNCHANGED <<runVars, historyVars, call, decodeVars, hashes, hashIn,
                   hashExc>>

HashNext == Construct \/ FromData \/ Compare

HashSpec == HashInit /\ [][HashNext]_vars

\* C15: every Sha256 object holds a string of exactly 64 characters; a
\* construction from a string of any other length raises and creates no
\* object, a construction from a string of 64 characters creates the object
\* holding it; and == on two objects is the equality of their strings.
C15_HashValidity ==
    /\ \A k \in DOMAIN hashes : hashes[k].hash.len = SHA256_LEN
    /\ hashIn # <<>> =>
          IF hashIn[1].len # SHA256_LEN
          THEN /\ hashExc = "Exception"
               /\ Len(hashes) = hashIn[2]
          ELSE /\ hashExc = ""
               /\ Len(hashes) = hashIn[2] + 1
               /\ hashes[Len(hashes)].hash = hashIn[1]
    /\ hashEq # <<>> =>
          (hashEq[3] <=> hashes[hashEq[1]].hash = hashes[hashEq[2]].hash)

\* C15 witness: an object exists, then a construction from 63 characters
\* failed, and two objects with different strings compared unequal
C15_Witness ==
    /\ Len(hashes) = 2
    /\ hashIn # <<>> /\ hashIn[1].len = SHA256_LEN - 1
    /\ hashExc = "Exception"
    /\ hashEq # <<>> /\ hashEq[1] # hashEq[2] /\ ~hashEq[3]

====
